---- MODULE Spec2Model ----
(***************************************************************************)
(* Model of markdown_katex's wrapper module (src/wrapper.py): locating the *)
(* katex executable, building the command line, the content-addressed      *)
(* cache of rendered output in TMP_DIR and the sweep of that directory.    *)
(*                                                                         *)
(* Strings are TLA+ strings; TLC evaluates Len, \o, SubSeq, Head and Tail  *)
(* on them, so splitting, joining, stripping and matching are computed     *)
(* character by character as the Python code computes them.                *)
(***************************************************************************)
EXTENDS Integers, Sequences, FiniteSets, TLC

(***************************************************************************)
(* Bounds of the model                                                     *)
(***************************************************************************)
\* the clock shows Start + w * Retention + d for w <= MaxWindows, d <= MaxDrift
MaxWindows == 1
MaxDrift == 0
\* calls made by the one process of the sequential specification
MaxCalls == 2
\* bytes an OS pipe holds before a write to it blocks
PipeCapacity == 2
\* bytes the renderer writes to one of its streams, at most
MaxOutput == 3

(***************************************************************************)
(* Python string operations                                                *)
(***************************************************************************)
CharAt(s, i) == IF 1 <= i /\ i <= Len(s) THEN SubSeq(s, i, i) ELSE ""

StartsWith(s, p) == Len(s) >= Len(p) /\ SubSeq(s, 1, Len(p)) = p

\* sub in s
Contains(s, sub) ==
    \E i \in 1..(Len(s) + 1) :
        i + Len(sub) - 1 <= Len(s) /\ SubSeq(s, i, i + Len(sub) - 1) = sub

IsSpace(c) == c \in {" ", "\n", "\t", "\r"}

IsDigit(c) == c \in {"0", "1", "2", "3", "4", "5", "6", "7", "8", "9"}

RECURSIVE LStrip(_)
LStrip(s) == IF Len(s) > 0 /\ IsSpace(Head(s)) THEN LStrip(Tail(s)) ELSE s

RECURSIVE RStrip(_)
RStrip(s) ==
    IF Len(s) > 0 /\ IsSpace(CharAt(s, Len(s)))
    THEN RStrip(SubSeq(s, 1, Len(s) - 1))
    ELSE s

\* s.strip()
Strip(s) == RStrip(LStrip(s))

\* the least number of a set that is not empty
MinOf(S) == CHOOSE k \in S : \A m \in S : k <= m

\* the index of the first occurrence of sub in s at or after i, else 0
FindSub(s, sub, i) ==
    LET hits == {k \in i..(Len(s) - Len(sub) + 1) :
                    SubSeq(s, k, k + Len(sub) - 1) = sub}
    IN  IF hits = {} THEN 0 ELSE MinOf(hits)

\* index of the first occurrence of the character sep at or after i, else 0
FindChar(s, sep, i) == FindSub(s, sep, i)

\* s.split(sep) for a one character separator: "" splits into <<"">>
RECURSIVE SplitOn(_, _)
SplitOn(s, sep) ==
    LET k == FindChar(s, sep, 1) IN
    IF k = 0 THEN <<s>>
    ELSE <<SubSeq(s, 1, k - 1)>> \o SplitOn(SubSeq(s, k + 1, Len(s)), sep)

\* index of the first whitespace character at or after i, else Len(s) + 1
RECURSIVE WordEnd(_, _)
WordEnd(s, i) ==
    IF i > Len(s) \/ IsSpace(CharAt(s, i)) THEN i ELSE WordEnd(s, i + 1)

\* s.split(): runs of whitespace separate, no empty strings
RECURSIVE SplitWs(_)
SplitWs(s) ==
    LET t == LStrip(s) IN
    IF Len(t) = 0 THEN <<>>
    ELSE LET e == WordEnd(t, 1) IN
         <<SubSeq(t, 1, e - 1)>> \o SplitWs(SubSeq(t, e, Len(t)))

\* sep.join(parts)
RECURSIVE Join(_, _)
Join(parts, sep) ==
    IF Len(parts) = 0 THEN ""
    ELSE IF Len(parts) = 1 THEN parts[1]
    ELSE parts[1] \o sep \o Join(Tail(parts), sep)

\* the concatenation of the strings of a sequence
RECURSIVE Concat(_)
Concat(parts) == IF Len(parts) = 0 THEN "" ELSE parts[1] \o Concat(Tail(parts))

\* index after the run of digits that starts at i (i itself when there is none)
RECURSIVE DigitsEnd(_, _)
DigitsEnd(s, i) ==
    IF i <= Len(s) /\ IsDigit(CharAt(s, i)) THEN DigitsEnd(s, i + 1) ELSE i

\* re.match('\d+\.\d+\.\d+', s) is not None: the pattern at the start of s
MatchesVersion(s) ==
    LET a == DigitsEnd(s, 1)
        b == DigitsEnd(s, a + 1)
        c == DigitsEnd(s, b + 1)
    IN  /\ a > 1
        /\ CharAt(s, a) = "."
        /\ b > a + 1
        /\ CharAt(s, b) = "."
        /\ c > b + 1

(***************************************************************************)
(* Module constants of wrapper.py                                          *)
(***************************************************************************)
CMD_NAME == "katex"

FALLBACK_BIN_DIR == "/usr/local/bin"

\* the name of TMP_LOCAL_CMD_CACHE inside TMP_DIR
LOCAL_CMD_CACHE == "local_katex_cmd.txt"

\* 24 * 60 * 60 seconds
Retention == 86400

\* the first clock value: a file can be older than the retention window
Start == Retention + 1

\* a pathlib path joined with a file name
PathJoin(dir, name) == IF dir = "" THEN name ELSE dir \o "/" \o name

(***************************************************************************)
(* State                                                                   *)
(***************************************************************************)
VARIABLES
    osname,      \* OSNAME, platform.system()
    machine,     \* MACHINE, platform.machine()
    env_path,    \* os.environ.get('PATH'): <<>> is None, <<s>> the string s
    pkg_bin,     \* the file names in PKG_BIN_DIR
    disk,        \* the executables on disk: path -> how the program behaves
    tmp,         \* TMP_DIR: entry name -> [kind, mtime, data]
    now,         \* time.time()
    ncalls,      \* calls the sequential process has made
    nsearch,     \* search-path enumerations the sequential process has made
    last,        \* what the latest call of the sequential process did
    prev,        \* the request and the outcome of the call before it
    procs,       \* the concurrent processes: id -> position and locals
    parsed_options \* _PARSED_OPTIONS: option name -> description

vars == <<osname, machine, env_path, pkg_bin, disk, tmp, now, ncalls, nsearch,
          last, prev, procs, parsed_options>>

platform == <<osname, machine, env_path, pkg_bin>>

(***************************************************************************)
(* The file system                                                         *)
(***************************************************************************)
\* a regular file of TMP_DIR
File(mtime, data) == [kind |-> "file", mtime |-> mtime, data |-> data]

\* a subdirectory of TMP_DIR
Dir(mtime) == [kind |-> "dir", mtime |-> mtime, data |-> ""]

\* fs with the entry name written (created or truncated and rewritten)
WriteFile(fs, name, mtime, data) ==
    [n \in DOMAIN fs \cup {name} |->
        IF n = name THEN File(mtime, data) ELSE fs[n]]

\* fs without the entry name
RemoveFile(fs, name) == [n \in DOMAIN fs \ {name} |-> fs[n]]

\* pl.Path(p).is_file() for an executable path
IsFile(dsk, p) == p \in DOMAIN dsk

\* pl.Path(p).exists(): pl.Path('') is the current directory, which exists
PathExists(dsk, p) == p = "" \/ p \in DOMAIN dsk

(***************************************************************************)
(* How the programs on disk answer `--version`                             *)
(***************************************************************************)
\* launch: the process starts; code: its exit status; out: stdout + stderr
Behaviour(kind) ==
    CASE kind = "katex"   -> [launch |-> TRUE, code |-> 0, out |-> "0.13.0\n"]
      [] kind = "banner"  -> [launch |-> TRUE, code |-> 0, out |-> "katex 0.13.0\n"]
      [] kind = "broken"  -> [launch |-> TRUE, code |-> 1, out |-> "0.13.0\n"]
      [] kind = "noexec"  -> [launch |-> FALSE, code |-> 0, out |-> ""]

(***************************************************************************)
(* BinaryResolver: _get_env_paths, _get_local_bin_candidates,              *)
(* _get_usr_parts, _get_pkg_bin_path, get_bin_cmd                          *)
(***************************************************************************)
\* os.pathsep
Pathsep(osn) == IF osn = "Windows" THEN ";" ELSE ":"

\* the directories _get_env_paths yields, in order
GetEnvPaths(envp, osn) ==
    LET dirs == IF envp # <<>> /\ envp[1] # ""
                THEN SplitOn(envp[1], Pathsep(osn))
                ELSE <<>>
    IN  IF envp = <<>> \/ ~Contains(envp[1], FALLBACK_BIN_DIR)
        THEN dirs \o <<FALLBACK_BIN_DIR>>
        ELSE dirs

\* the candidate invocations, in order
GetLocalBinCandidates(osn) ==
    IF osn = "Windows"
    THEN << CMD_NAME \o ".cmd",
            CMD_NAME \o ".exe",
            "npx.cmd --no-install " \o CMD_NAME,
            "npx.exe --no-install " \o CMD_NAME,
            CMD_NAME \o ".ps1",
            "npx.ps1 --no-install " \o CMD_NAME >>
    ELSE << CMD_NAME, "npx --no-install " \o CMD_NAME >>

\* the version check of lines 82-91: the candidate is kept
VersionProbeAccepts(dsk, local_bin) ==
    LET b == Behaviour(dsk[local_bin]) IN
    /\ b.launch
    /\ b.code = 0
    /\ MatchesVersion(Strip(b.out))

\* the nested loops of lines 74-95 from directory i, candidate j on, with the
\* number of version probes made so far
RECURSIVE SearchFrom(_, _, _, _, _, _)
SearchFrom(dsk, dirs, cands, i, j, probes) ==
    IF i > Len(dirs)
    THEN [found |-> FALSE, parts |-> <<>>, probes |-> probes]
    ELSE IF j > Len(cands)
    THEN SearchFrom(dsk, dirs, cands, i + 1, 1, probes)
    ELSE LET local_cmd_parts == SplitWs(cands[j])
             local_bin == PathJoin(dirs[i], local_cmd_parts[1])
         IN  IF ~IsFile(dsk, local_bin)
             THEN SearchFrom(dsk, dirs, cands, i, j + 1, probes)
             ELSE IF VersionProbeAccepts(dsk, local_bin)
             THEN [found |-> TRUE,
                   parts |-> <<local_bin>> \o Tail(local_cmd_parts),
                   probes |-> probes + 1]
             ELSE SearchFrom(dsk, dirs, cands, i, j + 1, probes + 1)

\* lines 68-73 without the check of line 72
PersistedUsable_Unchecked(fs, dsk) == LOCAL_CMD_CACHE \in DOMAIN fs

\* lines 68-73: the persisted resolution is there and its first line exists
PersistedUsable(fs, dsk) ==
    /\ LOCAL_CMD_CACHE \in DOMAIN fs
    /\ PathExists(dsk, SplitOn(fs[LOCAL_CMD_CACHE].data, "\n")[1])

\* the tokens written with blanks between them
PersistedText_Blanks(parts) == Join(parts, " ")

\* line 94: the text written to the resolution file
PersistedText(parts) == Join(parts, "\n")

\* _get_usr_parts: parts is <<>> for None; fs is TMP_DIR afterwards
GetUsrParts(fs, dsk, envp, osn, t) ==
    IF PersistedUsable(fs, dsk)
    THEN [parts |-> SplitOn(fs[LOCAL_CMD_CACHE].data, "\n"), found |-> TRUE,
          reused |-> TRUE, searched |-> FALSE, probes |-> 0, fs |-> fs]
    ELSE LET r == SearchFrom(dsk, GetEnvPaths(envp, osn),
                             GetLocalBinCandidates(osn), 1, 1, 0)
         IN  [parts |-> r.parts, found |-> r.found,
              reused |-> FALSE, searched |-> TRUE, probes |-> r.probes,
              fs |-> IF r.found
                     THEN WriteFile(fs, LOCAL_CMD_CACHE, t, PersistedText(r.parts))
                     ELSE fs]

\* the order of Python's str comparison on the characters the names use
CharRank(c) ==
    CHOOSE k \in 1..Len("-.0123456789ABCDEFGHIJKLMNOPQRSTUVWXYZ_abcdefghijklmnopqrstuvwxyz") :
        CharAt("-.0123456789ABCDEFGHIJKLMNOPQRSTUVWXYZ_abcdefghijklmnopqrstuvwxyz", k) = c

\* a < b for Python strings
RECURSIVE StrLess(_, _)
StrLess(a, b) ==
    IF Len(b) = 0 THEN FALSE
    ELSE IF Len(a) = 0 THEN TRUE
    ELSE IF Head(a) = Head(b) THEN StrLess(Tail(a), Tail(b))
    ELSE CharRank(Head(a)) < CharRank(Head(b))

PKG_BIN_DIR == "/lib/bin"

\* the glob of line 102 built from MACHINE as it is
PkgBinMatches_NoAlias(files, osn, mach) ==
    {f \in files : Contains(f, "_" \o mach \o "-" \o osn)}

\* the files PKG_BIN_DIR.glob('*_{machine}-{osname}*') yields
PkgBinMatches(files, osn, mach) ==
    LET m == IF mach = "AMD64" THEN "x86_64" ELSE mach
    IN  {f \in files : Contains(f, "_" \o m \o "-" \o osn)}

\* _get_pkg_bin_path: <<>> when it raises NotImplementedError
GetPkgBinPath(files, osn, mach) ==
    LET bin_files == PkgBinMatches(files, osn, mach) IN
    IF bin_files # {}
    THEN <<PathJoin(PKG_BIN_DIR,
                    CHOOSE f \in bin_files :
                        \A g \in bin_files : g = f \/ StrLess(g, f))>>
    ELSE <<>>

\* get_bin_cmd: cmd is the invocation prefix, <<>> with raised set when
\* NotImplementedError is raised
GetBinCmd(fs, dsk, envp, osn, mach, files, t) ==
    LET usr == GetUsrParts(fs, dsk, envp, osn, t) IN
    IF usr.found
    THEN [cmd |-> usr.parts, raised |-> FALSE, usr |-> usr]
    ELSE LET pkg == GetPkgBinPath(files, osn, mach) IN
         [cmd |-> pkg, raised |-> pkg = <<>>, usr |-> usr]

(***************************************************************************)
(* CommandBuilder and the digest: _iter_cmd_parts, _cmd_digest             *)
(***************************************************************************)
\* option values: a Python bool, int or str
PyBool(b) == [type |-> "bool", b |-> b, i |-> 0, s |-> ""]
PyInt(i) == [type |-> "int", b |-> FALSE, i |-> i, s |-> ""]
PyText(s) == [type |-> "str", b |-> FALSE, i |-> 0, s |-> s]

\* str(option_value)
PyStr(v) ==
    CASE v.type = "bool" -> IF v.b THEN "True" ELSE "False"
      [] v.type = "int"  -> ToString(v.i)
      [] v.type = "str"  -> v.s

\* `option_value is True` with 1 == True taken for it
IsTrue_Equal(v) == (v.type = "bool" /\ v.b) \/ (v.type = "int" /\ v.i = 1)

\* line 151: option_value is True, the identity of the bool object
IsTrue(v) == v.type = "bool" /\ v.b

\* line 153: option_value is False
IsFalse(v) == v.type = "bool" /\ ~v.b

\* lines 146-158 for the options from the k-th on; options is the sequence of
\* the dict's items, <<name, value>>, in iteration order
RECURSIVE OptionParts(_, _)
OptionParts(options, k) ==
    IF k > Len(options) THEN <<>>
    ELSE LET option_name == options[k][1]
             option_value == options[k][2]
             arg_name == IF StartsWith(option_name, "--")
                         THEN option_name
                         ELSE "--" \o option_name
         IN  (IF IsTrue(option_value)
              THEN <<arg_name>>
              ELSE IF IsFalse(option_value)
              THEN <<>>
              ELSE <<arg_name, PyStr(option_value)>>)
             \o OptionParts(options, k + 1)

\* list(_iter_cmd_parts(options)) given what get_bin_cmd returned
IterCmdParts(bin_cmd, options) == bin_cmd \o OptionParts(options, 1)

\* _cmd_digest: SHA-256 is taken as injective on the bytes it is fed, so the
\* digest is represented by those bytes: tex followed by every part
CmdDigest(tex, cmd_parts) == tex \o Concat(cmd_parts)

\* s.replace(old, new): the occurrences of old from left to right
RECURSIVE Replace(_, _, _)
Replace(s, old, new) ==
    LET k == FindSub(s, old, 1) IN
    IF k = 0 THEN s
    ELSE SubSeq(s, 1, k - 1) \o new
         \o Replace(SubSeq(s, k + Len(old), Len(s)), old, new)

\* the name of the cache file of a digest, and of its temp input file
OutputName(digest) == digest \o ".html"
InputName(output_name) == Replace(output_name, ".html", ".tex")

TMP_DIR == "/tmp/mdkatex"

(***************************************************************************)
(* The renderer process                                                    *)
(***************************************************************************)
\* what katex writes to --output for a request when it succeeds
RendererOutput(tex, cmd_parts) ==
    "<span class=\"katex\">" \o CmdDigest(tex, cmd_parts) \o "</span>\n"

\* SIG_NAME_BY_NUM, for two of the signals the signal module names
SIG_NAME_BY_NUM == [n \in {9, 15} |-> IF n = 9 THEN "SIGKILL" ELSE "SIGTERM"]

\* the ways a run of the renderer can end
Outcomes ==
    {"ok", "parse_error", "crash_partial", "sigterm_partial", "launch_failure"}

\* launch: Popen returned; code: what wait() returns; wrote: how much of the
\* output file the process wrote ("none": it never opened it)
RendererRun(outcome) ==
    CASE outcome = "ok" ->
            [launch |-> TRUE, code |-> 0, wrote |-> "full",
             stdout |-> "", stderr |-> "", oserror |-> ""]
      [] outcome = "parse_error" ->
            [launch |-> TRUE, code |-> 1, wrote |-> "none",
             stdout |-> "", stderr |-> "parse error\n", oserror |-> ""]
      [] outcome = "crash_partial" ->
            [launch |-> TRUE, code |-> 2, wrote |-> "partial",
             stdout |-> "writing\n", stderr |-> "EIO\n", oserror |-> ""]
      [] outcome = "sigterm_partial" ->
            [launch |-> TRUE, code |-> -15, wrote |-> "partial",
             stdout |-> "", stderr |-> "", oserror |-> ""]
      [] outcome = "launch_failure" ->
            [launch |-> FALSE, code |-> 0, wrote |-> "none",
             stdout |-> "", stderr |-> "",
             oserror |-> "[Errno 13] Permission denied"]

\* the output file after the process wrote `wrote` of its output
Written(fs, name, wrote, full, t) ==
    CASE wrote = "none"    -> fs
      [] wrote = "partial" -> WriteFile(fs, name, t, SubSeq(full, 1, Len(full) \div 2))
      [] wrote = "full"    -> WriteFile(fs, name, t, full)

\* the process the command starts can be launched: the bundled binary, or a
\* program on disk that is executable
CanLaunch(dsk, cmd_parts) ==
    \/ StartsWith(cmd_parts[1], PKG_BIN_DIR)
    \/ /\ cmd_parts[1] \in DOMAIN dsk
       /\ Behaviour(dsk[cmd_parts[1]]).launch

(***************************************************************************)
(* RenderCache and CacheJanitor: _write_tex2html, tex2html,                *)
(* _cleanup_tmp_dir, each run without interruption                         *)
(***************************************************************************)
\* the comparison of line 224 with the boundary included
Expired_Inclusive(mtime, t) == mtime <= t - Retention

\* line 224: the file is older than the retention window
Expired(mtime, t) == mtime < t - Retention

\* a sweep that passes over the resolution file
CleanupTmpDir_KeepsResolution(fs, t) ==
    LET keep == {n \in DOMAIN fs :
                    \/ n = LOCAL_CMD_CACHE
                    \/ ~(fs[n].kind = "file" /\ fs[n].mtime < t - Retention)}
    IN  [n \in keep |-> fs[n]]

\* _cleanup_tmp_dir at time t
CleanupTmpDir(fs, t) ==
    LET keep == {n \in DOMAIN fs :
                    ~(fs[n].kind = "file" /\ Expired(fs[n].mtime, t))}
    IN  [n \in keep |-> fs[n]]

\* lines 180-191: the error raised for a return code, "" for none
RetCodeError(tex, run) ==
    IF run.code < 0
    THEN IF -run.code \in DOMAIN SIG_NAME_BY_NUM
         THEN [exc |-> "KatexError",
               msg |-> "Error processing '" \o tex \o "': "
                       \o "katex_cli process ended with "
                       \o "code " \o ToString(run.code)
                       \o " (" \o SIG_NAME_BY_NUM[-run.code] \o ")"]
         ELSE [exc |-> "KeyError", msg |-> ToString(-run.code)]
    ELSE IF run.code > 0
    THEN [exc |-> "KatexError",
          msg |-> "Error processing '" \o tex \o "': "
                  \o Strip(run.stdout \o "\n" \o run.stderr)]
    ELSE [exc |-> "", msg |-> ""]

\* _write_tex2html: fs is TMP_DIR afterwards, exc the exception raised
WriteTex2Html(fs, cmd_parts, tex, output_name, outcome, t) ==
    LET input_name == InputName(output_name)
        fs1 == WriteFile(fs, input_name, t, tex)
        run == RendererRun(outcome)
    IN  IF ~run.launch
        THEN [fs |-> fs1, exc |-> "OSError", msg |-> run.oserror]
        ELSE LET fs2 == Written(fs1, output_name, run.wrote,
                                RendererOutput(tex, cmd_parts), t)
                 err == RetCodeError(tex, run)
             IN  IF err.exc # ""
                 THEN [fs |-> fs2, exc |-> err.exc, msg |-> err.msg]
                 ELSE [fs |-> RemoveFile(fs2, input_name), exc |-> "", msg |-> ""]

\* line 208 left out
TouchFile_Skipped(fs, name, t) == fs

\* line 208: tmp_output_file.touch() on a file that is there
TouchFile(fs, name, t) == [fs EXCEPT ![name].mtime = t]

\* lines 203-216 of tex2html, given the command get_bin_cmd and
\* _iter_cmd_parts produced: the result or the exception, and TMP_DIR after
\* the sweep of the finally clause
RenderWith(fs, cmd_parts, tex, outcome, t) ==
    LET digest == CmdDigest(tex, cmd_parts)
        tmp_filename == OutputName(digest)
        hit == tmp_filename \in DOMAIN fs
        w == IF hit
             THEN [fs |-> TouchFile(fs, tmp_filename, t),
                   exc |-> "", msg |-> ""]
             ELSE WriteTex2Html(fs, cmd_parts, tex, tmp_filename, outcome, t)
        readable == w.exc = "" /\ tmp_filename \in DOMAIN w.fs
    IN  [fs |-> CleanupTmpDir(w.fs, t),
         hit |-> hit,
         digest |-> digest,
         spawned |-> ~hit /\ RendererRun(outcome).launch,
         exc |-> IF w.exc # "" THEN w.exc
                 ELSE IF ~readable THEN "FileNotFoundError" ELSE "",
         msg |-> w.msg,
         result |-> IF readable THEN Strip(w.fs[tmp_filename].data) ELSE ""]

(***************************************************************************)
(* OptionsCatalog: DEFAULT_HELP_TEXT, OPTION_REGEX,                        *)
(* _parse_options_help_text                                                *)
(***************************************************************************)
\* the literal of lines 228-245
DEFAULT_HELP_LITERAL ==
    "\nOptions:\n"
    \o "  -V, --version              output the version number\n"
    \o "  -d, --display-mode         Render math in display...\n"
    \o "  --leqno                    Render display math in...\n"
    \o "  --fleqn                    Render display math fl...\n"
    \o "  -t, --no-throw-on-error    Render errors (in the ...\n"
    \o "  -c, --error-color <color>  A color string given i...\n"
    \o "  -b, --color-is-text-color  Makes \\color behave li...\n"
    \o "  -S, --strict               Turn on strict / LaTeX...\n"
    \o "  -s, --max-size <n>         If non-zero, all user-...\n"
    \o "  -e, --max-expand <n>       Limit the number of ma...\n"
    \o "  -m, --macro <def>          Define custom macro of...\n"
    \o "  -f, --macro-file <path>    Read macro definitions...\n"
    \o "  -i, --input <path>         Read LaTeX input from ...\n"
    \o "  -o, --output <path>        Write html output to t...\n"
    \o "  -h, --help                 output usage information\n"

\* line 246
DEFAULT_HELP_TEXT == Replace(Replace(DEFAULT_HELP_LITERAL, "\n", " "), "NL", "\n")

\* [a-z\-]
IsNameChar(c) ==
    c = "-" \/ (Len(c) = 1 /\ Contains("abcdefghijklmnopqrstuvwxyz", c))

\* \w
IsWordChar(c) ==
    /\ Len(c) = 1
    /\ Contains("0123456789ABCDEFGHIJKLMNOPQRSTUVWXYZ_abcdefghijklmnopqrstuvwxyz", c)

\* the class [ \s\w(){},:;.'\\/\[\] ] that ends the text group
IsTextTailChar(c) ==
    \/ IsSpace(c)
    \/ IsWordChar(c)
    \/ c \in {"(", ")", "{", "}", ",", ":", ";", ".", "'", "\\", "/", "[", "]"}

\* the index after the run of [a-z\-] that starts at i
RECURSIVE NameEnd(_, _)
NameEnd(s, i) ==
    IF i <= Len(s) /\ IsNameChar(CharAt(s, i)) THEN NameEnd(s, i + 1) ELSE i

\* the index after the run of \s that starts at i
RECURSIVE SpaceEnd(_, _)
SpaceEnd(s, i) ==
    IF i <= Len(s) /\ IsSpace(CharAt(s, i)) THEN SpaceEnd(s, i + 1) ELSE i

\* the index after the run of [^\n] that starts at i
LineEnd(s, i) ==
    LET k == FindSub(s, "\n", i) IN IF k = 0 THEN Len(s) + 1 ELSE k

\* the index after the run of the closing class that starts at i
RECURSIVE TextTailEnd(_, _)
TextTailEnd(s, i) ==
    IF i <= Len(s) /\ IsTextTailChar(CharAt(s, i))
    THEN TextTailEnd(s, i + 1)
    ELSE i

\* OPTION_REGEX matched at index i: -- name \s+ (<placeholder>)? \s+ text.
\* The quantifiers are greedy: the name is the whole run of name characters;
\* the placeholder is taken when it is followed by white space, otherwise
\* the white space after the name has to be two characters at least
OptionMatchAt(s, i) ==
    LET j == NameEnd(s, i + 2)
        k == SpaceEnd(s, j)
        g == NameEnd(s, k + 1)
        placeholder == /\ k > j
                       /\ CharAt(s, k) = "<"
                       /\ g > k + 1
                       /\ CharAt(s, g) = ">"
                       /\ SpaceEnd(s, g + 1) > g + 1
        start == IF placeholder THEN SpaceEnd(s, g + 1) ELSE k
        end == TextTailEnd(s, LineEnd(s, start))
    IN  IF \/ SubSeq(s, i, i + 1) # "--"
           \/ j = i + 2
           \/ (~placeholder /\ k < j + 2)
        THEN [ok |-> FALSE, name |-> "", text |-> "", end |-> i]
        ELSE [ok |-> TRUE, name |-> SubSeq(s, i + 2, j - 1),
              text |-> SubSeq(s, start, end - 1), end |-> end]

\* text.splitlines()
SplitLines(text) ==
    LET parts == SplitOn(text, "\n") IN
    IF parts[Len(parts)] = "" THEN SubSeq(parts, 1, Len(parts) - 1) ELSE parts

\* lines 280-281: ' '.join(line.strip() for line in text.splitlines()).strip()
OptionText(text) ==
    LET lines == SplitLines(text) IN
    Strip(Join([n \in 1..Len(lines) |-> Strip(lines[n])], " "))

\* options[name] = text
DictSet(d, name, text) ==
    [n \in DOMAIN d \cup {name} |-> IF n = name THEN text ELSE d[n]]

\* options.pop(name, None)
DictPop(d, name) == [n \in DOMAIN d \ {name} |-> d[n]]

\* d.update(e)
DictUpdate(d, e) ==
    [n \in DOMAIN d \cup DOMAIN e |-> IF n \in DOMAIN e THEN e[n] ELSE d[n]]

\* the loop of line 277: OPTION_REGEX.finditer from index i on
RECURSIVE FindOptions(_, _, _)
FindOptions(s, i, options) ==
    LET d == FindSub(s, "--", i) IN
    IF d = 0 THEN options
    ELSE LET match == OptionMatchAt(s, d) IN
         IF match.ok
         THEN FindOptions(s, match.end,
                          DictSet(options, match.name, OptionText(match.text)))
         ELSE FindOptions(s, d + 1, options)

\* _parse_options_help_text
ParseOptionsHelpText(help_text) ==
    LET o == FindSub(help_text, "Options:", 1)
        options_text == IF o = 0 THEN help_text
                        ELSE SubSeq(help_text, o + Len("Options:"), Len(help_text))
        options == FindOptions(options_text, 1, <<>>)
    IN  DictPop(DictPop(DictPop(DictPop(DictPop(options,
            "version"), "help"), "input"), "output"), "display-mode")

(***************************************************************************)
(* Inputs and initial states                                               *)
(***************************************************************************)
Texts == {"x^2", "y"}

OptionSets == { <<>>, << <<"display-mode", PyBool(TRUE)>> >> }

\* OSNAME and MACHINE of the processes the specifications run
Platforms == { <<"Linux", "x86_64">> }

\* the name of a program file on the platform
Exe(osn, base) == IF osn = "Windows" THEN base \o ".cmd" ELSE base

\* PATH is unset, or names two directories; one of them can lie below a
\* directory whose path ends like FALLBACK_BIN_DIR
EnvPathsOf(osn) ==
    { <<>>,
      <<"/opt/k" \o Pathsep(osn) \o "/bin">>,
      <<"/opt" \o FALLBACK_BIN_DIR \o Pathsep(osn) \o "/bin">> }

\* what is installed when the process starts
DisksOf(osn) ==
    LET k == Exe(osn, "katex")
        n == Exe(osn, "npx")
    IN  { <<>>,
          [p \in {"/bin/" \o k} |-> "katex"],
          [p \in {"/opt/k/" \o k, "/bin/" \o n} |->
              IF p = "/opt/k/" \o k THEN "banner" ELSE "katex"],
          [p \in {"/bin/" \o k, "/usr/local/bin/" \o k} |->
              IF p = "/bin/" \o k THEN "noexec" ELSE "broken"],
          [p \in {"/usr/local/bin/" \o k} |-> "katex"] }

PkgBins ==
    { {},
      {"katex_v0.12.0_x86_64-Linux", "katex_v0.13.0_x86_64-Linux",
       "katex_v0.13.0_x86_64-Windows.exe", "katex_v0.9.0_x86_64-Windows.exe",
       "katex_v0.13.0_x86_64-Darwin"} }

\* the cache file an earlier process wrote for the text y without options,
\* rendered by /bin/katex
OldEntry(osn) == OutputName(CmdDigest("y", <<"/bin/" \o Exe(osn, "katex")>>))

\* TMP_DIR as earlier processes left it: empty, or a resolution file, cache
\* files around the retention boundary, a cache file of a request that is
\* past the retention window, and a subdirectory
Leftovers(osn) ==
    { <<>>,
      [n \in {LOCAL_CMD_CACHE, "0a.html", "0b.html", "0c.html", "sub",
               OldEntry(osn)} |->
          CASE n = LOCAL_CMD_CACHE ->
                   File(Start - Retention, "/bin/" \o Exe(osn, "katex"))
            [] n = OldEntry(osn) ->
                   File(Start - Retention - 1,
                        RendererOutput("y", <<"/bin/" \o Exe(osn, "katex")>>))
            [] n = "0a.html" -> File(Start - Retention - 1, "<old/>\n")
            [] n = "0b.html" -> File(Start - Retention, "<old/>\n")
            [] n = "0c.html" -> File(Start - Retention + 1, "<old/>\n")
            [] n = "sub"     -> Dir(Start - Retention - 1)] }

Procs == {1, 2}

NoCall ==
    [op |-> "none", tex |-> "", options |-> <<>>, outcome |-> "",
     raised |-> FALSE, exc |-> "", msg |-> "", result |-> "", hit |-> FALSE,
     spawned |-> FALSE, digest |-> "", searched |-> FALSE, reused |-> FALSE,
     probes |-> 0, cmd |-> <<>>, t |-> 0]

NoPrev == [op |-> "none", tex |-> "", options |-> <<>>, exc |-> "", result |-> ""]

\* a process that is in no call
Idle ==
    [pc |-> "idle", tex |-> "", cmd |-> <<>>, out |-> "", inp |-> "",
     child |-> "none", code |-> 0, todo |-> {}, cur |-> "",
     exc |-> "", result |-> "", obtained |-> FALSE, hit |-> FALSE,
     sweeps |-> 0]

Init ==
    /\ \E pf \in Platforms : osname = pf[1] /\ machine = pf[2]
    /\ env_path \in EnvPathsOf(osname)
    /\ disk \in DisksOf(osname)
    /\ pkg_bin \in PkgBins
    /\ tmp \in Leftovers(osname)
    /\ now = Start
    /\ ncalls = 0
    /\ nsearch = 0
    /\ last = NoCall
    /\ prev = NoPrev
    /\ procs = [p \in Procs |-> Idle]
    /\ parsed_options = <<>>

(***************************************************************************)
(* The calls of one process, each run to its end                           *)
(***************************************************************************)
\* how the renderer's run can end in a call: no run is started when
\* get_bin_cmd raises or the cache file is there (one value stands for it);
\* launching can always fail, and fails when the program is not executable
PossibleOutcomes(dsk, bin, cmd_parts, tex) ==
    IF bin.raised THEN {"ok"}
    ELSE IF OutputName(CmdDigest(tex, cmd_parts)) \in DOMAIN bin.usr.fs THEN {"ok"}
    ELSE IF CanLaunch(dsk, cmd_parts) THEN Outcomes
    ELSE {"launch_failure"}

\* tex2html(tex, options) after get_bin_cmd returned bin or raised: what the
\* call did, and TMP_DIR when it ends. NotImplementedError is raised at line
\* 202, outside the try statement, so no sweep follows it
Tex2Html(bin, tex, options, outcome, t) ==
    LET req == [op |-> "render", tex |-> tex, options |-> options,
                searched |-> bin.usr.searched, reused |-> bin.usr.reused,
                probes |-> bin.usr.probes, cmd |-> bin.cmd,
                raised |-> bin.raised, t |-> t]
    IN  IF bin.raised
        THEN [fs |-> bin.usr.fs,
              call |-> req @@ [outcome |-> "", exc |-> "NotImplementedError",
                               msg |-> "Platform not supported",
                               result |-> "", hit |-> FALSE,
                               spawned |-> FALSE, digest |-> ""]]
        ELSE LET r == RenderWith(bin.usr.fs, IterCmdParts(bin.cmd, options),
                                 tex, outcome, t)
             IN  [fs |-> r.fs,
                  call |-> req @@ [outcome |-> IF r.hit THEN "" ELSE outcome,
                                   exc |-> r.exc, msg |-> r.msg,
                                   result |-> r.result, hit |-> r.hit,
                                   spawned |-> r.spawned, digest |-> r.digest]]

\* one call of tex2html(tex, options); outcome is how the renderer's run ends
\* if the call starts one
Render(bin, tex, options, outcome) ==
    /\ ncalls < MaxCalls
    /\ outcome \in PossibleOutcomes(disk, bin, IterCmdParts(bin.cmd, options), tex)
    /\ \E c \in {Tex2Html(bin, tex, options, outcome, now)} :
          /\ tmp' = c.fs
          /\ last' = c.call
    /\ nsearch' = nsearch + (IF bin.usr.searched THEN 1 ELSE 0)
    /\ prev' = [op |-> last.op, tex |-> last.tex, options |-> last.options,
                exc |-> last.exc, result |-> last.result]
    /\ ncalls' = ncalls + 1
    /\ UNCHANGED <<platform, disk, now, procs, parsed_options>>

(***************************************************************************)
(* The environment                                                         *)
(***************************************************************************)
\* the values the clock takes
ClockValues ==
    {Start + w * Retention + d : w \in 0..MaxWindows, d \in 0..MaxDrift}

\* time passes
Tick(dt) ==
    /\ now + dt \in ClockValues
    /\ now' = now + dt
    /\ UNCHANGED <<platform, disk, tmp, ncalls, nsearch, last, prev, procs,
                   parsed_options>>

\* a program is removed from disk
Uninstall(p) ==
    /\ p \in DOMAIN disk
    /\ disk' = [q \in DOMAIN disk \ {p} |-> disk[q]]
    /\ UNCHANGED <<platform, tmp, now, ncalls, nsearch, last, prev, procs,
                   parsed_options>>

Next ==
    \/ \E bin \in {GetBinCmd(tmp, disk, env_path, osname, machine, pkg_bin, now)} :
          \E tex \in Texts, options \in OptionSets, outcome \in Outcomes :
             Render(bin, tex, options, outcome)
    \/ \E dt \in {1, Retention} : Tick(dt)
    \/ \E p \in DOMAIN disk : Uninstall(p)

Spec == Init /\ [][Next]_vars

(***************************************************************************)
(* Claims about one process                                                *)
(***************************************************************************)
\* the latest step was a call of tex2html that reached the try statement
Rendered == last.op = "render" /\ ~last.raised

\* the latest call started the renderer, or tried to, and the run did not
\* end in success
RunFailed == Rendered /\ ~last.hit /\ last.outcome # "ok"

\* C1: a render call that follows a returned render call with the same
\* (text, options) returns the same output, is a cache hit, and starts no
\* process: neither the renderer nor a version probe of the resolver.
C1_SecondCallIsSilentHit ==
    (/\ prev.op = "render" /\ prev.exc = ""
     /\ last.op = "render"
     /\ prev.tex = last.tex /\ prev.options = last.options)
    => /\ last.exc = ""
       /\ last.result = prev.result
       /\ last.hit
       /\ ~last.spawned
       /\ last.probes = 0

\* C2: after a render call whose renderer run did not succeed, TMP_DIR holds
\* no cache file for the digest of that request.
C2_NoCacheFileAfterFailure ==
    RunFailed => OutputName(last.digest) \notin DOMAIN tmp

\* the diagnostic the claim wants in the message for an outcome
Diagnostic(run) ==
    IF ~run.launch THEN <<run.oserror>>
    ELSE IF run.code < 0
    THEN <<ToString(run.code), SIG_NAME_BY_NUM[-run.code]>>
    ELSE <<Strip(run.stdout \o "\n" \o run.stderr)>>

\* C3: every run of the renderer that does not succeed makes the call raise
\* KatexError with a message that holds the input text and the diagnostic of
\* the outcome; a failure to launch is raised as KatexError too.
C3_FailureRaisesKatexError ==
    RunFailed =>
        /\ last.exc = "KatexError"
        /\ Contains(last.msg, last.tex)
        /\ \A d \in {Diagnostic(RendererRun(last.outcome))[i] :
                        i \in 1..Len(Diagnostic(RendererRun(last.outcome)))} :
              Contains(last.msg, d)

\* C6: the sweep of a call at time t deletes a regular file if and only if
\* its modification time is below t - 24 h, and deletes nothing that is not
\* a regular file. The entries the call itself wrote (the cache file it
\* touched or created, its temp input file, a rewritten resolution file)
\* have a new modification time and are left out.
C6_RetentionBoundary ==
    [][(ncalls' = ncalls + 1 /\ ~last'.raised) =>
          \A n \in DOMAIN tmp :
             \/ n = InputName(OutputName(last'.digest))
             \/ n \in DOMAIN tmp' /\ tmp'[n] # tmp[n]
             \/ (n \notin DOMAIN tmp')
                   <=> (tmp[n].kind = "file" /\ tmp[n].mtime < now - 86400)
      ]_vars

\* C6 happens: a sweep has deleted the file one second past the boundary and
\* kept the file on the boundary, the younger file and the subdirectory
C6_Witness ==
    /\ Rendered
    /\ "0a.html" \notin DOMAIN tmp
    /\ {"0b.html", "0c.html", "sub"} \subseteq DOMAIN tmp
    /\ tmp["0b.html"].mtime = last.t - 86400
    /\ tmp["sub"].mtime < last.t - 86400

\* C7: when a call that missed the cache ends, returning or raising, the
\* temp input file it wrote is gone.
C7_InputFileRemoved ==
    (Rendered /\ ~last.hit) =>
        InputName(OutputName(last.digest)) \notin DOMAIN tmp

\* C9: a call reuses the persisted resolution as it is written, without a
\* search and without a version probe, if the resolution file exists and
\* the path on its first line exists; otherwise it runs the search.
C9_ResolutionPrecedence ==
    [][(ncalls' = ncalls + 1) =>
          IF /\ LOCAL_CMD_CACHE \in DOMAIN tmp
             /\ \/ SplitOn(tmp[LOCAL_CMD_CACHE].data, "\n")[1] \in DOMAIN disk
                \/ SplitOn(tmp[LOCAL_CMD_CACHE].data, "\n")[1] = ""
          THEN /\ last'.reused /\ ~last'.searched /\ last'.probes = 0
               /\ last'.cmd = SplitOn(tmp[LOCAL_CMD_CACHE].data, "\n")
               /\ LOCAL_CMD_CACHE \in DOMAIN tmp' =>
                     tmp'[LOCAL_CMD_CACHE] = tmp[LOCAL_CMD_CACHE]
          ELSE ~last'.reused /\ last'.searched
      ]_vars

\* C9 happens: one call reused a persisted resolution of several tokens, and
\* the call before it had to search
C9_Witness ==
    /\ last.op = "render" /\ last.reused /\ Len(last.cmd) > 1
    /\ ncalls = 2

\* C10: one process runs the search-path enumeration at most once.
C10_SearchAtMostOnce == nsearch <= 1

\* the directories the search is to try: those of PATH in their order, then
\* the fallback directory
C17_Dirs ==
    (IF env_path = <<>> THEN <<>> ELSE SplitOn(env_path[1], Pathsep(osname)))
    \o <<FALLBACK_BIN_DIR>>

\* candidate j in directory i exists, answers --version with exit code 0 and
\* a trimmed output that matches the version pattern
C17_Accepted(i, j) ==
    LET words == SplitWs(GetLocalBinCandidates(osname)[j])
        file == C17_Dirs[i] \o "/" \o words[1]
    IN  /\ file \in DOMAIN disk
        /\ Behaviour(disk[file]).launch
        /\ Behaviour(disk[file]).code = 0
        /\ MatchesVersion(Strip(Behaviour(disk[file]).out))

\* the accepted candidates, as <<directory index, candidate index>>
C17_AcceptedSet ==
    {ij \in (1..Len(C17_Dirs)) \X (1..Len(GetLocalBinCandidates(osname))) :
        C17_Accepted(ij[1], ij[2])}

\* C17: a search returns the first candidate, directories in PATH order
\* followed by the fallback directory and candidates in their listed order,
\* whose file exists and whose version query succeeds with a matching
\* output; candidates that fail, or fail to launch, are passed over, and
\* the search finds nothing only if there is no such candidate.
C17_FirstAcceptedCandidate ==
    [][(ncalls' = ncalls + 1 /\ last'.searched) =>
          IF C17_AcceptedSet = {}
          THEN last'.raised \/ StartsWith(last'.cmd[1], PKG_BIN_DIR)
          ELSE \E ij \in C17_AcceptedSet :
                  /\ \A kl \in C17_AcceptedSet :
                        \/ ij[1] < kl[1]
                        \/ (ij[1] = kl[1] /\ ij[2] <= kl[2])
                  /\ last'.cmd =
                        <<C17_Dirs[ij[1]] \o "/"
                            \o SplitWs(GetLocalBinCandidates(osname)[ij[2]])[1]>>
                        \o Tail(SplitWs(GetLocalBinCandidates(osname)[ij[2]]))
      ]_vars

\* the call searched and accepted a candidate of the search path
C18_Accepted(call) ==
    /\ call.op = "render" /\ call.searched /\ ~call.raised
    /\ ~StartsWith(call.cmd[1], PKG_BIN_DIR)

\* C18: when the search of a call accepts a candidate, the resolution file
\* holds its tokens, one per line and the path first, when the call ends;
\* the next call, if the executable is still on disk, reuses the file and
\* resolves to the same tokens; a search that ends with the bundled binary
\* or with NotImplementedError does not write the resolution file.
C18_PersistThenReuse ==
    [][(ncalls' = ncalls + 1) =>
          /\ C18_Accepted(last') =>
                /\ LOCAL_CMD_CACHE \in DOMAIN tmp'
                /\ SplitOn(tmp'[LOCAL_CMD_CACHE].data, "\n") = last'.cmd
                /\ tmp'[LOCAL_CMD_CACHE].mtime = now
          /\ (last'.searched /\ ~C18_Accepted(last')) =>
                (LOCAL_CMD_CACHE \in DOMAIN tmp' =>
                    /\ LOCAL_CMD_CACHE \in DOMAIN tmp
                    /\ tmp'[LOCAL_CMD_CACHE] = tmp[LOCAL_CMD_CACHE])
          /\ (C18_Accepted(last) /\ last.cmd[1] \in DOMAIN disk) =>
                /\ last'.reused /\ ~last'.searched
                /\ last'.cmd = last.cmd
      ]_vars

\* C18 happens: the first call found npx by search and wrote three lines,
\* the second call read them back as the same three tokens
C18_Witness ==
    /\ ncalls = 2 /\ nsearch = 1
    /\ last.reused
    /\ last.cmd = <<"/bin/npx", "--no-install", "katex">>
    /\ LOCAL_CMD_CACHE \in DOMAIN tmp
    /\ tmp[LOCAL_CMD_CACHE].data = "/bin/npx\n--no-install\nkatex"

\* C20: the resolution file is swept like any other file of TMP_DIR: a call
\* that reuses it leaves its modification time as it was; once the time is
\* more than 24 h back the sweep of the call deletes the file, so after a
\* call's sweep no resolution file older than that is left; and a call that
\* finds no resolution file searches, and writes the file anew if it
\* accepts a candidate.
C20_ResolutionFileExpires ==
    [][(ncalls' = ncalls + 1 /\ ~last'.raised) =>
          /\ (last'.reused /\ LOCAL_CMD_CACHE \in DOMAIN tmp') =>
                tmp'[LOCAL_CMD_CACHE] = tmp[LOCAL_CMD_CACHE]
          /\ (last'.reused /\ tmp[LOCAL_CMD_CACHE].mtime < now - 86400) =>
                LOCAL_CMD_CACHE \notin DOMAIN tmp'
          /\ LOCAL_CMD_CACHE \in DOMAIN tmp' =>
                tmp'[LOCAL_CMD_CACHE].mtime >= now - 86400
          /\ LOCAL_CMD_CACHE \notin DOMAIN tmp =>
                /\ last'.searched
                /\ ~StartsWith(last'.cmd[1], PKG_BIN_DIR) =>
                      /\ LOCAL_CMD_CACHE \in DOMAIN tmp'
                      /\ tmp'[LOCAL_CMD_CACHE].mtime = now
      ]_vars

\* C20 happens: the first call, 24 h after the start, reused the resolution
\* file another process had left and its sweep deleted the file; the second
\* call searched and wrote it anew
C20_Witness ==
    /\ ncalls = 2 /\ nsearch = 1
    /\ last.searched /\ ~last.raised
    /\ last.t = Start + 86400
    /\ LOCAL_CMD_CACHE \in DOMAIN tmp
    /\ tmp[LOCAL_CMD_CACHE].mtime = last.t

\* the name is that of a cache file
IsEntry(n) == Len(n) >= 5 /\ SubSeq(n, Len(n) - 4, Len(n)) = ".html"

\* C15: a cache hit sets the modification time of the entry to the current
\* time before the sweep of the call runs, so the entry it serves is there
\* after the call; and no call's sweep removes an entry that was written or
\* hit within the last 24 h.
C15_TouchOnRead ==
    [][(ncalls' = ncalls + 1 /\ ~last'.raised) =>
          /\ last'.hit =>
                /\ OutputName(last'.digest) \in DOMAIN tmp'
                /\ tmp'[OutputName(last'.digest)].mtime = now
                /\ last'.exc = ""
          /\ \A n \in DOMAIN tmp :
                (IsEntry(n) /\ tmp[n].mtime + 86400 >= now) => n \in DOMAIN tmp'
      ]_vars

\* C15 happens: the first call of the process hit an entry that was past
\* the retention window; the entry is there with the time of the call, and
\* the sweep of the call has removed the other file past the window
C15_Witness ==
    /\ ncalls = 1 /\ last.hit /\ last.tex = "y"
    /\ OutputName(last.digest) \in DOMAIN tmp
    /\ tmp[OutputName(last.digest)].mtime = last.t
    /\ "0a.html" \notin DOMAIN tmp
    /\ "0b.html" \in DOMAIN tmp

(***************************************************************************)
(* Several processes sharing TMP_DIR: tex2html, _write_tex2html and        *)
(* _cleanup_tmp_dir one file system operation at a time, and the renderer  *)
(* each call starts                                                        *)
(***************************************************************************)
\* the processes start with katex installed, its resolution persisted, and
\* an expired cache file and a subdirectory in TMP_DIR
InitShared ==
    /\ osname = "Linux" /\ machine = "x86_64"
    /\ env_path = <<"/opt/k:/bin">>
    /\ disk = [p \in {"/bin/katex"} |-> "katex"]
    /\ pkg_bin = {}
    /\ tmp = [n \in {LOCAL_CMD_CACHE, "0a.html", "sub"} |->
                CASE n = LOCAL_CMD_CACHE -> File(Start, "/bin/katex")
                  [] n = "0a.html" -> File(Start - Retention - 1, "<old/>\n")
                  [] n = "sub"     -> Dir(Start - Retention - 1)]
    /\ now = Start
    /\ ncalls = 0
    /\ nsearch = 0
    /\ last = NoCall
    /\ prev = NoPrev
    /\ procs = [p \in Procs |-> Idle]
    /\ parsed_options = <<>>

seq_vars == <<platform, disk, now, ncalls, nsearch, last, prev, parsed_options>>

\* an exception raised inside the try statement of tex2html skips the sweep
AfterRaise_NoFinally == "done"

\* lines 215-216: an exception raised inside the try statement of tex2html
\* is followed by the finally clause, the sweep
AfterRaise == "list"

\* process p is at pc and moves on with the fields of upd changed
Goto(p, upd) == procs' = [procs EXCEPT ![p] = upd @@ procs[p]]

\* lines 202-205: the command, the digest and the two file names
Begin(p, tex, options) ==
    /\ procs[p].pc = "idle"
    /\ \E bin \in {GetBinCmd(tmp, disk, env_path, osname, machine, pkg_bin, now)} :
          /\ tmp' = bin.usr.fs
          /\ IF bin.raised
             THEN Goto(p, [pc |-> "done", tex |-> tex,
                           exc |-> "NotImplementedError"])
             ELSE \E cmd_parts \in {IterCmdParts(bin.cmd, options)} :
                     Goto(p, [pc |-> "exists", tex |-> tex, cmd |-> cmd_parts,
                              out |-> OutputName(CmdDigest(tex, cmd_parts)),
                              inp |-> InputName(OutputName(CmdDigest(tex, cmd_parts)))])
    /\ UNCHANGED seq_vars

\* line 207: tmp_output_file.exists()
CheckExists(p) ==
    /\ procs[p].pc = "exists"
    /\ Goto(p, [pc |-> IF procs[p].out \in DOMAIN tmp THEN "touch" ELSE "input",
                hit |-> procs[p].out \in DOMAIN tmp])
    /\ UNCHANGED <<seq_vars, tmp>>

\* line 208: touch() sets the modification time, and creates the file, empty,
\* if it is not there any more
Touch(p) ==
    /\ procs[p].pc = "touch"
    /\ tmp' = IF procs[p].out \in DOMAIN tmp
              THEN [tmp EXCEPT ![procs[p].out].mtime = now]
              ELSE WriteFile(tmp, procs[p].out, now, "")
    /\ Goto(p, [pc |-> "read"])
    /\ UNCHANGED seq_vars

\* lines 169-173: the temp input file is written
WriteInput(p) ==
    /\ procs[p].pc = "input"
    /\ tmp' = WriteFile(tmp, procs[p].inp, now, procs[p].tex)
    /\ Goto(p, [pc |-> "wait", child |-> "started"])
    /\ UNCHANGED seq_vars

\* the renderer started at line 178 reads --input; it exits with status 1
\* if the file is not there
ChildRead(p) ==
    /\ procs[p].child = "started"
    /\ IF procs[p].inp \in DOMAIN tmp
       THEN Goto(p, [child |-> "read"])
       ELSE Goto(p, [child |-> "exited", code |-> 1])
    /\ UNCHANGED <<seq_vars, tmp>>

\* the renderer creates or truncates --output
ChildOpen(p) ==
    /\ procs[p].child = "read"
    /\ tmp' = WriteFile(tmp, procs[p].out, now, "")
    /\ Goto(p, [child |-> "writing"])
    /\ UNCHANGED seq_vars

\* the renderer writes its output and exits with status 0
ChildWrite(p) ==
    /\ procs[p].child = "writing"
    /\ tmp' = WriteFile(tmp, procs[p].out, now,
                        RendererOutput(procs[p].tex, procs[p].cmd))
    /\ Goto(p, [child |-> "exited", code |-> 0])
    /\ UNCHANGED seq_vars

\* lines 179-197: wait() returns; a positive code raises KatexError, which
\* leaves _write_tex2html before line 198
Wait(p) ==
    /\ procs[p].pc = "wait"
    /\ procs[p].child = "exited"
    /\ IF procs[p].code > 0
       THEN Goto(p, [pc |-> AfterRaise, child |-> "none", exc |-> "KatexError"])
       ELSE Goto(p, [pc |-> "unlink", child |-> "none"])
    /\ UNCHANGED <<seq_vars, tmp>>

\* line 198: tmp_input_file.unlink()
UnlinkInput(p) ==
    /\ procs[p].pc = "unlink"
    /\ IF procs[p].inp \in DOMAIN tmp
       THEN /\ tmp' = RemoveFile(tmp, procs[p].inp)
            /\ Goto(p, [pc |-> "read"])
       ELSE /\ tmp' = tmp
            /\ Goto(p, [pc |-> AfterRaise, exc |-> "FileNotFoundError"])
    /\ UNCHANGED seq_vars

\* lines 211-214: the cache file is opened and read
ReadOutput(p) ==
    /\ procs[p].pc = "read"
    /\ IF procs[p].out \in DOMAIN tmp
       THEN Goto(p, [pc |-> "list", obtained |-> TRUE,
                     result |-> Strip(tmp[procs[p].out].data)])
       ELSE Goto(p, [pc |-> AfterRaise, exc |-> "FileNotFoundError"])
    /\ UNCHANGED <<seq_vars, tmp>>

\* lines 220-221: TMP_DIR.iterdir() lists the directory
SweepList(p) ==
    /\ procs[p].pc = "list"
    /\ Goto(p, [pc |-> "next", todo |-> DOMAIN tmp,
                sweeps |-> procs[p].sweeps + 1])
    /\ UNCHANGED <<seq_vars, tmp>>

\* line 222: the next listed entry, fpath.is_file(); after the last entry the
\* finally clause ends and the call returns or raises what was pending
SweepIsFile(p) ==
    /\ procs[p].pc = "next"
    /\ IF procs[p].todo = {}
       THEN Goto(p, [pc |-> "done"])
       ELSE \E n \in procs[p].todo :
               IF n \in DOMAIN tmp /\ tmp[n].kind = "file"
               THEN Goto(p, [pc |-> "stat", cur |-> n,
                             todo |-> procs[p].todo \ {n}])
               ELSE Goto(p, [todo |-> procs[p].todo \ {n}])
    /\ UNCHANGED <<seq_vars, tmp>>

\* lines 223-224: fpath.stat() raises if the file is gone; the exception
\* leaves the finally clause and replaces the result of the call
SweepStat(p) ==
    /\ procs[p].pc = "stat"
    /\ IF procs[p].cur \notin DOMAIN tmp
       THEN Goto(p, [pc |-> "done", exc |-> "FileNotFoundError", cur |-> "",
                     todo |-> {}])
       ELSE IF Expired(tmp[procs[p].cur].mtime, now)
       THEN Goto(p, [pc |-> "delete"])
       ELSE Goto(p, [pc |-> "next", cur |-> ""])
    /\ UNCHANGED <<seq_vars, tmp>>

\* line 225: fpath.unlink() raises if the file is gone
SweepUnlink(p) ==
    /\ procs[p].pc = "delete"
    /\ IF procs[p].cur \in DOMAIN tmp
       THEN /\ tmp' = RemoveFile(tmp, procs[p].cur)
            /\ Goto(p, [pc |-> "next", cur |-> ""])
       ELSE /\ tmp' = tmp
            /\ Goto(p, [pc |-> "done", exc |-> "FileNotFoundError",
                        cur |-> "", todo |-> {}])
    /\ UNCHANGED seq_vars

\* the caller has the result or the exception; the process is free again
Return(p) ==
    /\ procs[p].pc = "done"
    /\ procs' = [procs EXCEPT ![p] = Idle]
    /\ UNCHANGED <<seq_vars, tmp>>

NextShared ==
    \E p \in Procs :
        \/ \E tex \in Texts : Begin(p, tex, <<>>)
        \/ CheckExists(p)
        \/ Touch(p)
        \/ WriteInput(p)
        \/ ChildRead(p)
        \/ ChildOpen(p)
        \/ ChildWrite(p)
        \/ Wait(p)
        \/ UnlinkInput(p)
        \/ ReadOutput(p)
        \/ SweepList(p)
        \/ SweepIsFile(p)
        \/ SweepStat(p)
        \/ SweepUnlink(p)
        \/ Return(p)

SpecShared == InitShared /\ [][NextShared]_vars

(***************************************************************************)
(* Claims about processes sharing TMP_DIR                                  *)
(***************************************************************************)
\* C4: with render calls of several processes interleaved in any order, a
\* call that returns returns the complete output of the renderer for its
\* request, never an empty or partly written one.
C4_ReturnsCompleteOutput ==
    \A p \in Procs :
        (procs[p].pc = "done" /\ procs[p].exc = "") =>
            procs[p].result = Strip(RendererOutput(procs[p].tex, procs[p].cmd))

\* C5: a call that obtained its output returns it, whatever happens to the
\* files its sweep looks at.
C5_SweepIsBestEffort ==
    \A p \in Procs :
        (procs[p].pc = "done" /\ procs[p].obtained) => procs[p].exc = ""

\* C16: a call that reached the cache lookup runs the sweep once before it
\* returns or raises, on a hit, on a miss that succeeds and on a miss that
\* raises; the sweep starts after the output was read or the exception
\* raised, never before.
C16_OneSweepPerCall ==
    \A p \in Procs :
        /\ (procs[p].pc = "done" /\ procs[p].exc # "NotImplementedError") =>
               procs[p].sweeps = 1
        /\ procs[p].pc \in {"exists", "touch", "input", "wait", "unlink", "read"} =>
               procs[p].sweeps = 0
        /\ procs[p].pc \in {"next", "stat", "delete"} =>
               /\ procs[p].sweeps = 1
               /\ procs[p].obtained \/ procs[p].exc # ""

\* C16 happens: one call raised KatexError and one call returned its output,
\* and each has run its sweep
C16_Witness ==
    \E p, q \in Procs :
        /\ procs[p].pc = "done" /\ procs[p].exc = "KatexError"
        /\ procs[p].sweeps = 1
        /\ procs[q].pc = "done" /\ procs[q].exc = "" /\ procs[q].obtained
        /\ procs[q].sweeps = 1

\* process p has written its temp input file and not yet deleted it
UsesInput(p) == procs[p].pc \in {"wait", "unlink"}

\* C8: two calls in progress at the same time use different temp input files.
C8_InputFilesDistinct ==
    \A p, q \in Procs :
        (p # q /\ UsesInput(p) /\ UsesInput(q)) => procs[p].inp # procs[q].inp

(***************************************************************************)
(* The command line and the digest of a request: lines 202-203 of          *)
(* tex2html on their own                                                   *)
(***************************************************************************)
\* option dicts with every kind of value the builder tells apart
BuildOptionSets ==
    { <<>>,
      << <<"display-mode", PyBool(TRUE)>> >>,
      << <<"leqno", PyBool(TRUE)>> >>,
      << <<"leqno", PyText("")>> >>,
      << <<"leqno", PyBool(FALSE)>>, <<"max-size", PyInt(1)>> >>,
      << <<"max-size", PyInt(0)>>, <<"--strict", PyText("warn")>> >>,
      << <<"--strict", PyText("warn")>>, <<"max-size", PyInt(0)>> >>,
      << <<"max-size", PyText("1")>> >> }

\* cmd_parts = list(_iter_cmd_parts(options)); digest = _cmd_digest(tex,
\* cmd_parts): the resolver runs first and may write the resolution file
BuildCommand(bin, tex, options) ==
    /\ tmp' = bin.usr.fs
    /\ last' = [op |-> "build", tex |-> tex, options |-> options,
                raised |-> bin.raised, bin |-> bin.cmd,
                cmd |-> IF bin.raised THEN <<>>
                        ELSE IterCmdParts(bin.cmd, options),
                digest |-> IF bin.raised THEN ""
                           ELSE CmdDigest(tex, IterCmdParts(bin.cmd, options))]
    /\ prev' = last
    /\ UNCHANGED <<platform, disk, now, ncalls, nsearch, procs, parsed_options>>

NextBuild ==
    \E bin \in {GetBinCmd(tmp, disk, env_path, osname, machine, pkg_bin, now)} :
       \E tex \in Texts, options \in BuildOptionSets :
          BuildCommand(bin, tex, options)

\* the platforms the resolver and the builder are run on
BuildPlatforms ==
    Platforms \cup { <<"Windows", "AMD64">>, <<"Darwin", "arm64">> }

InitBuild ==
    /\ \E pf \in BuildPlatforms : osname = pf[1] /\ machine = pf[2]
    /\ env_path \in EnvPathsOf(osname)
    /\ disk \in DisksOf(osname)
    /\ pkg_bin \in PkgBins
    /\ tmp \in Leftovers(osname)
    /\ now = Start
    /\ ncalls = 0
    /\ nsearch = 0
    /\ last = NoCall
    /\ prev = NoPrev
    /\ procs = [p \in Procs |-> Idle]
    /\ parsed_options = <<>>

SpecBuild == InitBuild /\ [][NextBuild]_vars

\* the latest two requests were both given a command and a digest
BothBuilt ==
    /\ last.op = "build" /\ ~last.raised
    /\ prev.op = "build" /\ ~prev.raised

\* C11: the digest depends on the text and the argv tokens only, and two
\* requests whose text or argv token sequence differ get different digests
\* (the hash being taken as free of collisions on the bytes it is fed).
C11_DigestInjective ==
    BothBuilt =>
        (last.digest = prev.digest
            <=> (last.tex = prev.tex /\ last.cmd = prev.cmd))

\* the tokens the builder is to add for one option
C12_Tokens(name, value) ==
    LET flag == IF Len(name) >= 2 /\ SubSeq(name, 1, 2) = "--"
                THEN name ELSE "--" \o name
    IN  IF value = PyBool(TRUE) THEN <<flag>>
        ELSE IF value = PyBool(FALSE) THEN <<>>
        ELSE <<flag, IF value.type = "int" THEN ToString(value.i) ELSE value.s>>

\* the tokens for the options up to the k-th, in iteration order
RECURSIVE C12_Argv(_, _)
C12_Argv(options, k) ==
    IF k = 0 THEN <<>>
    ELSE C12_Argv(options, k - 1) \o C12_Tokens(options[k][1], options[k][2])

\* C12: argv is the resolved prefix followed, for each option in iteration
\* order, by --name alone for True, nothing for False, and --name and the
\* string form of the value for anything else, the integers 0 and 1
\* included; a name that starts with -- is used as it is.
C12_BuilderResult ==
    (last.op = "build" /\ ~last.raised) =>
        last.cmd = last.bin \o C12_Argv(last.options, Len(last.options))

\* C12 happens: a command was built from a False flag and the integer 1,
\* and the one before it from the integer 0 and a name that has its dashes
C12_Witness ==
    /\ BothBuilt
    /\ last.options = << <<"leqno", PyBool(FALSE)>>, <<"max-size", PyInt(1)>> >>
    /\ last.cmd = last.bin \o <<"--max-size", "1">>
    /\ prev.options = << <<"max-size", PyInt(0)>>, <<"--strict", PyText("warn")>> >>
    /\ Len(prev.cmd) = Len(prev.bin) + 4

(***************************************************************************)
(* ProcessExecutor: the process and its streams in _write_tex2html and     *)
(* _get_cmd_help_text, one statement at a time                             *)
(***************************************************************************)
\* a process that is in no call and holds no Popen object: a stream is
\* "none" (not a pipe), "open" or "closed"
ExecIdle ==
    Idle @@ [fn |-> "", spawned |-> FALSE, stdout |-> "none", stderr |-> "none"]

\* katex is installed and its resolution persisted; TMP_DIR holds nothing else
InitExec ==
    /\ osname = "Linux" /\ machine = "x86_64"
    /\ env_path = <<"/opt/k:/bin">>
    /\ disk = [p \in {"/bin/katex"} |-> "katex"]
    /\ pkg_bin = {}
    /\ tmp = [n \in {LOCAL_CMD_CACHE} |-> File(Start, "/bin/katex")]
    /\ now = Start
    /\ ncalls = 0
    /\ nsearch = 0
    /\ last = NoCall
    /\ prev = NoPrev
    /\ procs = [p \in Procs |-> ExecIdle]
    /\ parsed_options = <<>>

\* stream.close() left out
CloseStream_Skipped(stream) == stream

\* stream.close()
CloseStream(stream) == IF stream = "open" THEN "closed" ELSE stream

\* _write_tex2html is entered with the command of the request and writes the
\* temp input file (lines 169-175); _get_cmd_help_text builds its command
\* (lines 250-252)
ExecBegin(p, fn, tex) ==
    /\ procs[p].pc = "idle"
    /\ \E bin \in {GetBinCmd(tmp, disk, env_path, osname, machine, pkg_bin, now)} :
          IF bin.raised
          THEN /\ tmp' = bin.usr.fs
               /\ Goto(p, [pc |-> "done", fn |-> fn, exc |-> "NotImplementedError"])
          ELSE IF fn = "help"
          THEN /\ tmp' = bin.usr.fs
               /\ Goto(p, [pc |-> "popen", fn |-> fn,
                           cmd |-> bin.cmd \o <<"--help">>])
          ELSE \E cmd_parts \in {IterCmdParts(bin.cmd, <<>>)} :
                  /\ tmp' = WriteFile(bin.usr.fs,
                                      InputName(OutputName(CmdDigest(tex, cmd_parts))),
                                      now, tex)
                  /\ Goto(p, [pc |-> "popen", fn |-> fn, tex |-> tex,
                              cmd |-> cmd_parts,
                              out |-> OutputName(CmdDigest(tex, cmd_parts)),
                              inp |-> InputName(OutputName(CmdDigest(tex, cmd_parts)))])
    /\ UNCHANGED seq_vars

\* lines 178 and 254: sp.Popen returns with a pipe for every stream asked
\* for, or raises OSError and proc stays None
ExecPopen(p, launched) ==
    /\ procs[p].pc = "popen"
    /\ IF ~launched
       THEN Goto(p, [pc |-> "close_stdout", exc |-> "OSError"])
       ELSE IF procs[p].fn = "help"
       THEN Goto(p, [pc |-> "read_help", spawned |-> TRUE, stdout |-> "open"])
       ELSE Goto(p, [pc |-> "wait", spawned |-> TRUE, stdout |-> "open",
                     stderr |-> "open"])
    /\ UNCHANGED <<seq_vars, tmp>>

\* lines 179-185: the renderer has run and proc.wait() returns its code
ExecWait(p, outcome) ==
    /\ procs[p].pc = "wait"
    /\ RendererRun(outcome).launch
    /\ tmp' = Written(tmp, procs[p].out, RendererRun(outcome).wrote,
                      RendererOutput(procs[p].tex, procs[p].cmd), now)
    /\ \E err \in {RetCodeError(procs[p].tex, RendererRun(outcome))} :
          IF RendererRun(outcome).code > 0
          THEN Goto(p, [pc |-> "read_stdout", code |-> RendererRun(outcome).code])
          ELSE Goto(p, [pc |-> "close_stdout", exc |-> err.exc,
                        code |-> RendererRun(outcome).code])
    /\ UNCHANGED seq_vars

\* line 179: proc.wait() is interrupted and raises
ExecWaitInterrupted(p) ==
    /\ procs[p].pc = "wait"
    /\ Goto(p, [pc |-> "close_stdout", exc |-> "KeyboardInterrupt"])
    /\ UNCHANGED <<seq_vars, tmp>>

\* line 187: read_output(proc.stdout) returns, or raises on bytes that are
\* not UTF-8
ExecReadStdout(p, decoded) ==
    /\ procs[p].pc = "read_stdout"
    /\ IF decoded
       THEN Goto(p, [pc |-> "read_stderr"])
       ELSE Goto(p, [pc |-> "close_stdout", exc |-> "UnicodeDecodeError"])
    /\ UNCHANGED <<seq_vars, tmp>>

\* lines 188-191: read_output(proc.stderr), then KatexError is raised
ExecReadStderr(p, decoded) ==
    /\ procs[p].pc = "read_stderr"
    /\ Goto(p, [pc |-> "close_stdout",
                exc |-> IF decoded THEN "KatexError" ELSE "UnicodeDecodeError"])
    /\ UNCHANGED <<seq_vars, tmp>>

\* line 255: help_text = read_output(proc.stdout)
ExecReadHelp(p, decoded) ==
    /\ procs[p].pc = "read_help"
    /\ Goto(p, [pc |-> "close_stdout",
                exc |-> IF decoded THEN "" ELSE "UnicodeDecodeError"])
    /\ UNCHANGED <<seq_vars, tmp>>

\* the finally clauses, lines 193-195 and 257-258: proc.stdout.close() if
\* there is a process
ExecCloseStdout(p) ==
    /\ procs[p].pc = "close_stdout"
    /\ Goto(p, [pc |-> IF procs[p].fn = "help" THEN "done" ELSE "close_stderr",
                stdout |-> IF procs[p].spawned
                           THEN CloseStream(procs[p].stdout)
                           ELSE procs[p].stdout])
    /\ UNCHANGED <<seq_vars, tmp>>

\* lines 196-197: proc.stderr.close(); the pending exception leaves the
\* function, otherwise line 198 follows
ExecCloseStderr(p) ==
    /\ procs[p].pc = "close_stderr"
    /\ Goto(p, [pc |-> IF procs[p].exc = "" THEN "unlink" ELSE "done",
                stderr |-> IF procs[p].spawned
                           THEN CloseStream(procs[p].stderr)
                           ELSE procs[p].stderr])
    /\ UNCHANGED <<seq_vars, tmp>>

\* line 198: tmp_input_file.unlink()
ExecUnlink(p) ==
    /\ procs[p].pc = "unlink"
    /\ IF procs[p].inp \in DOMAIN tmp
       THEN /\ tmp' = RemoveFile(tmp, procs[p].inp)
            /\ Goto(p, [pc |-> "done"])
       ELSE /\ tmp' = tmp
            /\ Goto(p, [pc |-> "done", exc |-> "FileNotFoundError"])
    /\ UNCHANGED seq_vars

\* the function has returned or raised; the Popen object is dropped
ExecReturn(p) ==
    /\ procs[p].pc = "done"
    /\ procs' = [procs EXCEPT ![p] = ExecIdle]
    /\ UNCHANGED <<seq_vars, tmp>>

NextExec ==
    \E p \in Procs :
        \/ \E fn \in {"write", "help"}, tex \in Texts : ExecBegin(p, fn, tex)
        \/ \E launched \in BOOLEAN : ExecPopen(p, launched)
        \/ \E outcome \in Outcomes : ExecWait(p, outcome)
        \/ ExecWaitInterrupted(p)
        \/ \E decoded \in BOOLEAN : ExecReadStdout(p, decoded)
        \/ \E decoded \in BOOLEAN : ExecReadStderr(p, decoded)
        \/ \E decoded \in BOOLEAN : ExecReadHelp(p, decoded)
        \/ ExecCloseStdout(p)
        \/ ExecCloseStderr(p)
        \/ ExecUnlink(p)
        \/ ExecReturn(p)

SpecExec == InitExec /\ [][NextExec]_vars

\* C13: when a function that started a process has returned or raised, the
\* stdout and the stderr pipe of the process are closed, on every path: exit
\* code zero, a positive code, a signal, an exception while waiting or
\* while reading the output.
C13_StreamsClosed ==
    \A p \in Procs :
        (procs[p].pc \in {"unlink", "done"} /\ procs[p].spawned) =>
            /\ procs[p].stdout # "open"
            /\ procs[p].stderr # "open"

\* C13 happens: a wait was interrupted and both pipes are closed when the
\* exception leaves, while the other process has closed the only pipe of a
\* help run
C13_Witness ==
    \E p, q \in Procs :
        /\ procs[p].pc = "done" /\ procs[p].spawned
        /\ procs[p].exc = "KeyboardInterrupt"
        /\ procs[p].stdout = "closed" /\ procs[p].stderr = "closed"
        /\ procs[q].pc = "done" /\ procs[q].fn = "help" /\ procs[q].spawned
        /\ procs[q].stdout = "closed" /\ procs[q].stderr = "none"

(***************************************************************************)
(* OptionsCatalog: _get_cmd_help_text and parse_options, each call run to  *)
(* its end, while programs are removed and replaced                        *)
(***************************************************************************)
\* what the programs on disk write to stdout for `--help`
HelpText(kind) ==
    CASE kind = "katex" ->
            "Usage: katex [options]\n\nOptions:\n"
            \o "  -V, --version              output the version number\n"
            \o "  -d, --display-mode         Render math in display\n"
            \o "                             mode.\n"
            \o "  --leqno                    Render display math in\n"
            \o "                             leqno style.\n"
            \o "  -c, --error-color <color>  A color string\n"
            \o "  -h, --help                 output usage information\n"
      [] kind = "banner" ->
            "Options:\n"
            \o "  --leqno  Left equation numbers\n"
            \o "  -T, --trust  Trust the input\n"
            \o "  -i, --input <path>  Read LaTeX input\n"
      [] kind = "broken" -> ""
      [] kind = "noexec" -> ""

\* the kind of the program a command starts: the bundled binary is katex
ProgramKind(dsk, cmd_parts) ==
    IF StartsWith(cmd_parts[1], PKG_BIN_DIR) THEN "katex" ELSE dsk[cmd_parts[1]]

\* parse_options() with the memo d: _PARSED_OPTIONS is tested for being
\* non-empty; otherwise the catalog is computed, with NotImplementedError of
\* the resolver caught and OSError of Popen not, and added to the memo
ParseOptionsCall(d, bin, dsk) ==
    LET default == ParseOptionsHelpText(DEFAULT_HELP_TEXT) IN
    IF DOMAIN d # {}
    THEN [result |-> d, exc |-> "", memo |-> d, hit |-> TRUE,
          resolved |-> FALSE, spawned |-> FALSE]
    ELSE IF bin.raised
    THEN [result |-> default, exc |-> "", memo |-> DictUpdate(d, default),
          hit |-> FALSE, resolved |-> TRUE, spawned |-> FALSE]
    ELSE IF ~CanLaunch(dsk, bin.cmd)
    THEN [result |-> <<>>, exc |-> "OSError", memo |-> d,
          hit |-> FALSE, resolved |-> TRUE, spawned |-> FALSE]
    ELSE LET help_text == HelpText(ProgramKind(dsk, bin.cmd))
             options == DictUpdate(default, ParseOptionsHelpText(help_text))
         IN  [result |-> options, exc |-> "", memo |-> DictUpdate(d, options),
              hit |-> FALSE, resolved |-> TRUE, spawned |-> TRUE]

\* one call of parse_options()
ParseOptions(bin) ==
    /\ \E c \in {ParseOptionsCall(parsed_options, bin, disk)} :
          /\ last' = [op |-> "parse_options"] @@ c
          /\ parsed_options' = c.memo
          /\ tmp' = IF c.resolved THEN bin.usr.fs ELSE tmp
    /\ prev' = last
    /\ UNCHANGED <<platform, disk, now, ncalls, nsearch, procs>>

\* the program at p is replaced by another version of the renderer
Reinstall(p, kind) ==
    /\ p \in DOMAIN disk
    /\ disk[p] # kind
    /\ disk' = [disk EXCEPT ![p] = kind]
    /\ UNCHANGED <<platform, tmp, now, ncalls, nsearch, last, prev, procs,
                   parsed_options>>

NextOptions ==
    \/ \E bin \in {GetBinCmd(tmp, disk, env_path, osname, machine, pkg_bin, now)} :
          ParseOptions(bin)
    \/ \E p \in DOMAIN disk : Uninstall(p)
    \/ \E p \in DOMAIN disk, kind \in {"katex", "banner"} : Reinstall(p, kind)

SpecOptions == Init /\ [][NextOptions]_vars

\* C14: after a call of parse_options has returned, every later call
\* returns the same mapping without resolving or starting the renderer
\* again, whatever has happened to the renderer in between; and no returned
\* mapping holds a reserved name.
C14_MemoizedDiscovery ==
    /\ (last.op = "parse_options" /\ last.exc = "") =>
           DOMAIN last.result \cap
               {"version", "help", "input", "output", "display-mode"} = {}
    /\ (last.op = "parse_options" /\ prev.op = "parse_options" /\ prev.exc = "") =>
           /\ last.exc = ""
           /\ last.result = prev.result
           /\ ~last.resolved
           /\ ~last.spawned

\* the bundled files the claim's pattern *_<arch>-<os>* selects
C19_Matches ==
    {f \in pkg_bin :
        Contains(f, "_" \o (IF machine = "AMD64" THEN "x86_64" ELSE machine)
                        \o "-" \o osname)}

\* the resolver has no usable persisted resolution and its search accepts
\* no candidate
C19_NoCandidate ==
    /\ ~PersistedUsable(tmp, disk)
    /\ \A i \in 1..Len(GetEnvPaths(env_path, osname)),
          j \in 1..Len(GetLocalBinCandidates(osname)) :
          LET file == PathJoin(GetEnvPaths(env_path, osname)[i],
                               SplitWs(GetLocalBinCandidates(osname)[j])[1])
          IN  ~(file \in DOMAIN disk /\ VersionProbeAccepts(disk, file))

\* C19: the bundled directory decides the result only when no candidate of
\* the search path was accepted; then, if bundled files match
\* *_<arch>-<os>* (AMD64 read as x86_64), the invocation is the one token
\* that names the greatest match in string order, and if none matches
\* NotImplementedError is raised and the call builds no command and starts
\* no renderer.
C19_BundledFallback ==
    [][(last'.op = "build") =>
          IF ~C19_NoCandidate
          THEN ~last'.raised /\ ~StartsWith(last'.bin[1], PKG_BIN_DIR)
          ELSE IF C19_Matches # {}
          THEN /\ ~last'.raised
               /\ \E f \in C19_Matches :
                     /\ last'.bin = <<PKG_BIN_DIR \o "/" \o f>>
                     /\ \A g \in C19_Matches : g = f \/ StrLess(g, f)
          ELSE /\ last'.raised
               /\ last'.cmd = <<>>
               /\ tmp' = tmp
      ]_vars

\* C19 happens: on Windows with MACHINE = AMD64 and nothing on the search
\* path the resolver returned the bundled file that is greatest in string
\* order of the two that match
C19_Witness ==
    /\ osname = "Windows" /\ machine = "AMD64"
    /\ last.op = "build" /\ ~last.raised
    /\ last.bin = <<"/lib/bin/katex_v0.9.0_x86_64-Windows.exe">>

(***************************************************************************)
(* The renderer and its pipes: _write_tex2html from sp.Popen on, with the  *)
(* process it starts writing to stdout and stderr, which are pipes of      *)
(* PipeCapacity bytes that only read_output empties                        *)
(***************************************************************************)
\* a process that is in no call: to_out and to_err are the bytes the
\* renderer still has to write, buf_out and buf_err the bytes in the pipes
PipeIdle ==
    Idle @@ [to_out |-> 0, to_err |-> 0, buf_out |-> 0, buf_err |-> 0]

InitPipe ==
    /\ osname = "Linux" /\ machine = "x86_64"
    /\ env_path = <<"/opt/k:/bin">>
    /\ disk = [p \in {"/bin/katex"} |-> "katex"]
    /\ pkg_bin = {}
    /\ tmp = [n \in {LOCAL_CMD_CACHE} |-> File(Start, "/bin/katex")]
    /\ now = Start
    /\ ncalls = 0
    /\ nsearch = 0
    /\ last = NoCall
    /\ prev = NoPrev
    /\ procs = [p \in Procs |-> PipeIdle]
    /\ parsed_options = <<>>

\* lines 169-178: the input file is written and sp.Popen starts the
\* renderer with stdout=PIPE and stderr=PIPE; the renderer will write n_out
\* and n_err bytes and exit with code
PipeBegin(p, tex, n_out, n_err, code) ==
    /\ procs[p].pc = "idle"
    /\ \E bin \in {GetBinCmd(tmp, disk, env_path, osname, machine, pkg_bin, now)} :
          \E cmd_parts \in {IterCmdParts(bin.cmd, <<>>)} :
             /\ ~bin.raised
             /\ tmp' = WriteFile(bin.usr.fs,
                                 InputName(OutputName(CmdDigest(tex, cmd_parts))),
                                 now, tex)
             /\ Goto(p, [pc |-> "wait", tex |-> tex, cmd |-> cmd_parts,
                         out |-> OutputName(CmdDigest(tex, cmd_parts)),
                         inp |-> InputName(OutputName(CmdDigest(tex, cmd_parts))),
                         child |-> "running", code |-> code,
                         to_out |-> n_out, to_err |-> n_err,
                         buf_out |-> 0, buf_err |-> 0])
    /\ UNCHANGED seq_vars

\* the renderer writes a byte to stdout; the write blocks while the pipe is
\* full
ChildWriteStdout(p) ==
    /\ procs[p].child = "running"
    /\ procs[p].to_out > 0
    /\ procs[p].buf_out < PipeCapacity
    /\ Goto(p, [to_out |-> procs[p].to_out - 1,
                buf_out |-> procs[p].buf_out + 1])
    /\ UNCHANGED <<seq_vars, tmp>>

\* the renderer writes a byte to stderr
ChildWriteStderr(p) ==
    /\ procs[p].child = "running"
    /\ procs[p].to_err > 0
    /\ procs[p].buf_err < PipeCapacity
    /\ Goto(p, [to_err |-> procs[p].to_err - 1,
                buf_err |-> procs[p].buf_err + 1])
    /\ UNCHANGED <<seq_vars, tmp>>

\* the renderer has written all it had to write and exits; with code 0 it
\* has written --output
ChildExit(p) ==
    /\ procs[p].child = "running"
    /\ procs[p].to_out = 0 /\ procs[p].to_err = 0
    /\ tmp' = IF procs[p].code = 0
              THEN WriteFile(tmp, procs[p].out, now,
                             RendererOutput(procs[p].tex, procs[p].cmd))
              ELSE tmp
    /\ Goto(p, [child |-> "exited"])
    /\ UNCHANGED seq_vars

\* lines 179-186: proc.wait() returns when the renderer has exited; nothing
\* reads the pipes before
PipeWait(p) ==
    /\ procs[p].pc = "wait"
    /\ procs[p].child = "exited"
    /\ IF procs[p].code > 0
       THEN Goto(p, [pc |-> "read_stdout"])
       ELSE Goto(p, [pc |-> "close",
                     exc |-> IF procs[p].code < 0 THEN "KatexError" ELSE ""])
    /\ UNCHANGED <<seq_vars, tmp>>

\* line 187: read_output(proc.stdout) reads lines until the end of the
\* stream, which comes when the pipe is empty and the renderer has exited
PipeReadStdout(p) ==
    /\ procs[p].pc = "read_stdout"
    /\ IF procs[p].buf_out > 0
       THEN Goto(p, [buf_out |-> 0])
       ELSE /\ procs[p].child = "exited"
            /\ Goto(p, [pc |-> "read_stderr"])
    /\ UNCHANGED <<seq_vars, tmp>>

\* lines 188-191: read_output(proc.stderr), then KatexError is raised
PipeReadStderr(p) ==
    /\ procs[p].pc = "read_stderr"
    /\ IF procs[p].buf_err > 0
       THEN Goto(p, [buf_err |-> 0])
       ELSE /\ procs[p].child = "exited"
            /\ Goto(p, [pc |-> "close", exc |-> "KatexError"])
    /\ UNCHANGED <<seq_vars, tmp>>

\* lines 192-198: the finally clause closes the pipes; if no exception is
\* pending the input file is removed
PipeClose(p) ==
    /\ procs[p].pc = "close"
    /\ tmp' = IF procs[p].exc = "" /\ procs[p].inp \in DOMAIN tmp
              THEN RemoveFile(tmp, procs[p].inp)
              ELSE tmp
    /\ Goto(p, [pc |-> "done", buf_out |-> 0, buf_err |-> 0,
                exc |-> IF procs[p].exc = "" /\ procs[p].inp \notin DOMAIN tmp
                        THEN "FileNotFoundError" ELSE procs[p].exc])
    /\ UNCHANGED seq_vars

\* _write_tex2html has returned or raised
PipeReturn(p) ==
    /\ procs[p].pc = "done"
    /\ procs' = [procs EXCEPT ![p] = PipeIdle]
    /\ UNCHANGED <<seq_vars, tmp>>

\* the process whose calls are followed; the other one stays idle
PipeProcs == {1}

\* a step of the call of p or of the renderer it started
PipeStep(p) ==
    \/ ChildWriteStdout(p)
    \/ ChildWriteStderr(p)
    \/ ChildExit(p)
    \/ PipeWait(p)
    \/ PipeReadStdout(p)
    \/ PipeReadStderr(p)
    \/ PipeClose(p)
    \/ PipeReturn(p)

NextPipe ==
    \E p \in PipeProcs :
        \/ \E tex \in Texts, n_out \in 0..MaxOutput, n_err \in 0..MaxOutput,
              code \in {0, 1, -15} : PipeBegin(p, tex, n_out, n_err, code)
        \/ ChildWriteStdout(p)
        \/ ChildWriteStderr(p)
        \/ ChildExit(p)
        \/ PipeWait(p)
        \/ PipeReadStdout(p)
        \/ PipeReadStderr(p)
        \/ PipeClose(p)
        \/ PipeReturn(p)

\* the operating system runs every process that can take a step: the
\* caller and the renderer are never starved
SpecPipe ==
    /\ InitPipe
    /\ [][NextPipe]_vars
    /\ \A p \in PipeProcs : WF_vars(PipeStep(p))

\* C21: a renderer that writes any amount of output and exits once it has
\* written it, provided its pipes are read, makes the call that started it
\* return or raise: a call that waits for its renderer gets to its end.
C21_RenderTerminates ==
    \A p \in PipeProcs : (procs[p].pc = "wait") ~> (procs[p].pc = "done")

====
